---- MODULE Spec2Model ----
(***************************************************************************)
(* Model of packages/measure/src/measure-renders.tsx: the run driver       *)
(* (measureRenders, measurePerformance, measureRendersInternal with its    *)
(* per-iteration closures captureJsonTree and handleRender) and the        *)
(* redundancy detector (isJsonTreeEqual, detectRedundantUpdates).          *)
(*                                                                         *)
(* JavaScript is single threaded: a step of the model is the synchronous   *)
(* code between two calls into a collaborator.  While the driver is inside *)
(* a collaborator (render, scenario, cleanup, writeTestStats) the          *)
(* rendering framework may invoke the render callback of any profiling     *)
(* boundary built so far.  Callbacks that come after measureRenders has    *)
(* settled change bindings that nothing reads any more and are left out.   *)
(***************************************************************************)
EXTENDS Integers, Sequences, FiniteSets, TLC

VARIABLES
    pc,                \* position of the driver
    calls,             \* entry-point calls made so far in this process
    entry,             \* the public function the caller invoked
    args,              \* (ui, options) the caller passed to the entry point
    params,            \* (ui, options) measureRenders was invoked with
    testingLibrary,    \* getTestingLibrary() as read on line 60
    runs,              \* line 55
    warmupRuns,        \* line 57
    i,                 \* loop variable of line 68
    closures,          \* per-iteration bindings: duration, count, isFinished, renderResult
    runResults,        \* line 64
    hasTooLateRender,  \* line 65
    renderJsonTrees,   \* line 66
    stats,             \* value measureRendersInternal resolved with
    result,            \* settlement of the promise of measureRenders
    outcome,           \* settlement of the promise the caller holds
    warnedOnce,        \* messages logger.warnOnce has already emitted
    warnings,          \* messages emitted through the logger in this call
    deprecations,      \* deprecation warnings emitted in this process
    trace,             \* collaborator calls of this call and resumptions after await, in order
    commits,           \* history: render-callback invocations of this call
    history,           \* history: per iteration, when its render callback fired
    lateInLoop,        \* history: a callback fired after its run's cleanup, before line 108
    cleanupReturns,    \* history: cleanup() calls that have returned
    failedAt,          \* history: collaborator whose failure ended this call
    components,        \* input of a direct detectRedundantUpdates call
    detected           \* its return value

vars == <<pc, calls, entry, args, params, testingLibrary, runs, warmupRuns, i,
          closures, runResults, hasTooLateRender, renderJsonTrees, stats, result,
          outcome, warnedOnce, warnings, deprecations, trace, commits, history,
          lateInLoop, cleanupReturns, failedAt, components, detected>>

-----------------------------------------------------------------------------
(* Bounds *)

MaxRuns == 1
MaxCommits == 2
MaxCalls == 2
MaxLen == 5

-----------------------------------------------------------------------------
(* Values *)

\* an option the caller left out (the fields of MeasureRendersOptions are optional)
Undefined == -1

Null == [kind |-> "null"]
TextA == [kind |-> "text", value |-> "a"]
TextB == [kind |-> "text", value |-> "b"]
TreeA == [kind |-> "node", type |-> "View", children |-> <<TextA>>]
TreeB == [kind |-> "node", type |-> "View", children |-> <<TextB>>]

\* what renderResult.toJSON() can return
JsonTrees == {TreeA, TreeB}
ToJsonTree == JsonTrees \cup {Null}

\* snapshots a direct caller of detectRedundantUpdates passes
TreeC == [kind |-> "node", type |-> "Text", children |-> <<>>]
Snapshots == ToJsonTree \cup {TreeC}

Durations == {1, 2}
Errors == {"E1", "E2"}
Uis == {"ui"}
Libraries == {"react-native", "react"}

UndefinedOptions ==
    [runs |-> Undefined, warmupRuns |-> Undefined, wrapper |-> FALSE,
     scenario |-> FALSE, writeFile |-> "undefined"]

MeasureRendersOptions ==
    [runs : {Undefined} \cup (0 .. MaxRuns),
     warmupRuns : {Undefined, 0},
     wrapper : {FALSE},                     \* the calls explored pass no wrapper
     scenario : BOOLEAN,
     writeFile : {"undefined", "true", "false"}]

\* process-wide defaults of ./config, as configure() may have left them
Configs == [runs : {1}, warmupRuns : {1}]

NoStats == [kind |-> "none"]
NoFailure == [where |-> "none", error |-> "none"]
Pending == [status |-> "pending"]
Fulfilled(v) == [status |-> "fulfilled", value |-> v]
Rejected(e) == [status |-> "rejected", error |-> e]

DeprecationMessage == "measurePerformance has been renamed to measureRenders"
TooLateMessage == "still re-renders after test scenario finished"

-----------------------------------------------------------------------------
(* Pure functions *)

IsNull(tree) == tree.kind = "null"

\* an equality that looks at the root of the trees only
isShallowEqual(a, b) ==
    IF a.kind # b.kind THEN FALSE
    ELSE IF a.kind = "node" THEN a.type = b.type
    ELSE TRUE

RECURSIVE isDeepEqual(_, _)
isDeepEqual(a, b) ==
    IF a.kind # b.kind THEN FALSE
    ELSE IF a.kind = "null" THEN TRUE
    ELSE IF a.kind = "text" THEN a.value = b.value
    ELSE /\ a.type = b.type
         /\ Len(a.children) = Len(b.children)
         /\ \A k \in 1 .. Len(a.children) : isDeepEqual(a.children[k], b.children[k])

isJsonTreeEqual(a, b) == isDeepEqual(a, b)

\* the loop of lines 150-154; n is the 0-based index i of the source
RECURSIVE detectLoop(_, _, _)
detectLoop(cs, n, res) ==
    IF n < Len(cs)
    THEN detectLoop(cs, n + 1,
                    IF isJsonTreeEqual(cs[n + 1], cs[n]) THEN Append(res, n) ELSE res)
    ELSE res

detectRedundantUpdates(cs) == detectLoop(cs, 1, <<>>)

buildUiToRender(ui, handler, wrapper) ==
    LET uiWithProfiler == [kind |-> "Profiler", id |-> "REASSURE_ROOT",
                           onRender |-> handler, child |-> ui]
    IN  IF wrapper THEN [kind |-> "Wrapper", child |-> uiWithProfiler]
        ELSE uiWithProfiler

\* options?.x ?? config.x
OrDefault(value, default) == IF value = Undefined THEN default ELSE value

\* measure-helpers.processRunResults: drops the warm-up entries
processRunResults(rr, warmup) ==
    LET rest == SubSeq(rr, warmup + 1, Len(rr))
    IN  [runs |-> Len(rest),
         durations |-> [k \in 1 .. Len(rest) |-> rest[k].duration],
         counts |-> [k \in 1 .. Len(rest) |-> rest[k].count]]

\* logger.warnOnce: emits a message the first time it is given
warnOnceEmits(seen, msg) == msg \notin seen

-----------------------------------------------------------------------------
(* Initial state: the module is loaded, no measurement has been started *)

Idle ==
    /\ pc = "idle"
    /\ entry = "none"
    /\ args = [ui |-> "none", options |-> UndefinedOptions]
    /\ params = [ui |-> "none", options |-> UndefinedOptions]
    /\ testingLibrary = "none"
    /\ runs = 0
    /\ warmupRuns = 0
    /\ i = 0
    /\ closures = <<>>
    /\ runResults = <<>>
    /\ hasTooLateRender = FALSE
    /\ renderJsonTrees = <<>>
    /\ stats = NoStats
    /\ result = Pending
    /\ outcome = Pending
    /\ warnings = <<>>
    /\ trace = <<>>
    /\ commits = 0
    /\ history = <<>>
    /\ lateInLoop = FALSE
    /\ cleanupReturns = 0
    /\ failedAt = NoFailure

Init ==
    /\ Idle
    /\ calls = 0
    /\ warnedOnce = {}
    /\ deprecations = 0
    /\ components = <<>>
    /\ detected = <<>>

-----------------------------------------------------------------------------
(* Entry points *)

\* a call of measureRenders that leaves the options out
ForwardUiOnly(a) == [ui |-> a.ui, options |-> UndefinedOptions]

\* what measurePerformance hands to measureRenders (line 48)
ForwardArgs(a) == a

\* what the caller of measurePerformance gets (line 48: return await)
ForwardResult(r) == r

\* the state of a call that has not run yet
NewFrame ==
    /\ testingLibrary' = "none"
    /\ runs' = 0
    /\ warmupRuns' = 0
    /\ i' = 0
    /\ closures' = <<>>
    /\ runResults' = <<>>
    /\ hasTooLateRender' = FALSE
    /\ renderJsonTrees' = <<>>
    /\ stats' = NoStats
    /\ result' = Pending
    /\ outcome' = Pending
    /\ warnings' = <<>>
    /\ trace' = <<>>
    /\ commits' = 0
    /\ history' = <<>>
    /\ lateInLoop' = FALSE
    /\ cleanupReturns' = 0
    /\ failedAt' = NoFailure

\* the caller invokes measureRenders or measurePerformance
Call(e, ui, options) ==
    /\ pc = "idle"
    /\ calls' = calls + 1
    /\ entry' = e
    /\ args' = [ui |-> ui, options |-> options]
    /\ params' = IF e = "measureRenders" THEN [ui |-> ui, options |-> options]
                 ELSE [ui |-> "none", options |-> UndefinedOptions]
    /\ pc' = IF e = "measureRenders" THEN "L28" ELSE "L44"
    /\ NewFrame
    /\ UNCHANGED <<warnedOnce, deprecations, components, detected>>

\* measurePerformance, lines 44-48: warn once, then call measureRenders
Deprecation ==
    /\ pc = "L44"
    /\ IF warnOnceEmits(warnedOnce, DeprecationMessage)
       THEN /\ warnings' = Append(warnings, DeprecationMessage)
            /\ deprecations' = deprecations + 1
       ELSE UNCHANGED <<warnings, deprecations>>
    /\ warnedOnce' = warnedOnce \cup {DeprecationMessage}
    /\ params' = ForwardArgs(args)
    /\ pc' = "L28"
    /\ UNCHANGED <<calls, entry, args, testingLibrary, runs, warmupRuns, i, closures,
                   runResults, hasTooLateRender, renderJsonTrees, stats, result,
                   outcome, trace, commits, history, lateInLoop, cleanupReturns, failedAt,
                   components, detected>>

\* measureRendersInternal, lines 55-66
InternalStart(config, library) ==
    /\ pc = "L28"
    /\ runs' = OrDefault(params.options.runs, config.runs)
    /\ warmupRuns' = OrDefault(params.options.warmupRuns, config.warmupRuns)
    /\ testingLibrary' = library
    /\ runResults' = <<>>
    /\ hasTooLateRender' = FALSE
    /\ renderJsonTrees' = <<>>
    /\ i' = 0
    /\ pc' = "L68"
    /\ UNCHANGED <<calls, entry, args, params, closures, stats, result, outcome,
                   warnedOnce, warnings, deprecations, trace, commits, history, lateInLoop,
                   cleanupReturns, failedAt, components, detected>>

-----------------------------------------------------------------------------
(* Settling the promises *)

\* measureRenders settles with r; a direct caller sees r at once
Settle(r) ==
    /\ result' = r
    /\ IF entry = "measureRenders"
       THEN outcome' = r /\ pc' = "settled"
       ELSE outcome' = outcome /\ pc' = "L48"

\* measurePerformance, line 48: return await measureRenders(ui, options)
PerformanceSettles ==
    /\ pc = "L48"
    /\ outcome' = ForwardResult(result)
    /\ pc' = "settled"
    /\ UNCHANGED <<calls, entry, args, params, testingLibrary, runs, warmupRuns, i,
                   closures, runResults, hasTooLateRender, renderJsonTrees, stats,
                   result, warnedOnce, warnings, deprecations, trace, commits, history, lateInLoop,
                   cleanupReturns, failedAt, components, detected>>

\* an exception of a collaborator leaves measureRendersInternal and measureRenders
Fail(where, e) ==
    /\ failedAt' = [where |-> where, error |-> e]
    /\ Settle(Rejected(e))

-----------------------------------------------------------------------------
(* The loop of lines 68-106 *)

\* duration and count declared outside the loop: an iteration starts from
\* what the one before it accumulated
NewClosureCarried ==
    IF closures = <<>>
    THEN [duration |-> 0, count |-> 0, isFinished |-> FALSE, renderResult |-> FALSE]
    ELSE [duration |-> closures[Len(closures)].duration,
          count |-> closures[Len(closures)].count,
          isFinished |-> FALSE, renderResult |-> FALSE]

\* lines 69-73: the bindings of an iteration
NewClosure == [duration |-> 0, count |-> 0, isFinished |-> FALSE, renderResult |-> FALSE]

\* lines 68-93: loop test, fresh bindings, buildUiToRender, call of render
CallRender ==
    /\ pc = "L68"
    /\ i < runs + warmupRuns
    /\ closures' = Append(closures, NewClosure)
    /\ history' = Append(history, [mount |-> 0, onTime |-> 0, onTimeDuration |-> 0,
                                   late |-> 0])
    /\ trace' = Append(trace, [op |-> "render", i |-> i,
                               arg |-> buildUiToRender(params.ui, i, params.options.wrapper)])
    /\ pc' = "inRender"
    /\ UNCHANGED <<calls, entry, args, params, testingLibrary, runs, warmupRuns, i,
                   runResults, hasTooLateRender, renderJsonTrees, stats, result,
                   outcome, warnedOnce, warnings, deprecations, commits, lateInLoop,
                   cleanupReturns, failedAt, components, detected>>

\* a capture in every iteration, not in the first alone
captureJsonTreeEveryRun(j, renderResult, json) ==
    IF testingLibrary = "react-native"
    THEN Append(renderJsonTrees, IF renderResult THEN json ELSE Null)
    ELSE renderJsonTrees

\* captureJsonTree of iteration j, lines 75-79; renderResult tells whether the
\* handle has been assigned, json is what its toJSON() returns
captureJsonTree(j, renderResult, json) ==
    IF testingLibrary = "react-native" /\ j = 0
    THEN Append(renderJsonTrees, IF renderResult THEN json ELSE Null)
    ELSE renderJsonTrees

\* isFinished declared outside the loop: one flag for all runs
TooLateShared(j) == \E k \in 1 .. Len(closures) : closures[k].isFinished

\* the isFinished test of lines 87-89
TooLate(j) == closures[j + 1].isFinished

\* history of a callback of iteration j that fires now
Record(h, j, actualDuration) ==
    IF j < cleanupReturns
    THEN [h EXCEPT ![j + 1].late = @ + 1]
    ELSE [h EXCEPT ![j + 1].onTime = @ + 1,
                   ![j + 1].onTimeDuration = @ + actualDuration,
                   ![j + 1].mount = IF pc = "inRender" /\ j = i THEN @ + 1 ELSE @]

\* duration and count declared outside the loop: every callback adds to the
\* bindings the running iteration reads
HandleRenderShared(j, actualDuration, json) ==
    /\ pc \in {"inRender", "inScenario", "inCleanup", "inWrite"}
    /\ j \in 0 .. Len(closures) - 1
    /\ commits < MaxCommits
    /\ json # Null => testingLibrary = "react-native" /\ j = 0 /\ closures[j + 1].renderResult
    /\ renderJsonTrees' = captureJsonTree(j, closures[j + 1].renderResult, json)
    /\ closures' = [closures EXCEPT ![Len(closures)].duration = @ + actualDuration,
                                    ![Len(closures)].count = @ + 1]
    /\ hasTooLateRender' = IF TooLate(j) THEN TRUE ELSE hasTooLateRender
    /\ commits' = commits + 1
    /\ history' = Record(history, j, actualDuration)
    /\ lateInLoop' = (lateInLoop \/ (j < cleanupReturns /\ pc # "inWrite"))
    /\ UNCHANGED <<pc, calls, entry, args, params, testingLibrary, runs, warmupRuns, i,
                   runResults, stats, result, outcome, warnedOnce, warnings,
                   deprecations, trace, cleanupReturns, failedAt, components, detected>>

\* handleRender of iteration j, lines 81-90, invoked by the profiling boundary;
\* toJSON() is called only where captureJsonTree reads the handle
HandleRender(j, actualDuration, json) ==
    /\ pc \in {"inRender", "inScenario", "inCleanup", "inWrite"}
    /\ j \in 0 .. Len(closures) - 1
    /\ commits < MaxCommits
    /\ json # Null => testingLibrary = "react-native" /\ j = 0 /\ closures[j + 1].renderResult
    /\ renderJsonTrees' = captureJsonTree(j, closures[j + 1].renderResult, json)
    /\ closures' = [closures EXCEPT ![j + 1].duration = @ + actualDuration,
                                    ![j + 1].count = @ + 1]
    /\ hasTooLateRender' = IF TooLate(j) THEN TRUE ELSE hasTooLateRender
    /\ commits' = commits + 1
    /\ history' = Record(history, j, actualDuration)
    /\ lateInLoop' = (lateInLoop \/ (j < cleanupReturns /\ pc # "inWrite"))
    /\ UNCHANGED <<pc, calls, entry, args, params, testingLibrary, runs, warmupRuns, i,
                   runResults, stats, result, outcome, warnedOnce, warnings,
                   deprecations, trace, cleanupReturns, failedAt, components, detected>>

\* lines 93-94: render returns the handle, captureJsonTree()
RenderReturns(json) ==
    /\ pc = "inRender"
    /\ closures' = [closures EXCEPT ![i + 1].renderResult = TRUE]
    /\ json # Null => testingLibrary = "react-native" /\ i = 0
    /\ renderJsonTrees' = captureJsonTree(i, TRUE, json)
    /\ pc' = "L96"
    /\ UNCHANGED <<calls, entry, args, params, testingLibrary, runs, warmupRuns, i,
                   runResults, hasTooLateRender, stats, result, outcome, warnedOnce,
                   warnings, deprecations, trace, commits, history, lateInLoop, cleanupReturns, failedAt,
                   components, detected>>

\* line 93: render throws
RenderThrows(e) ==
    /\ pc = "inRender"
    /\ Fail("render", e)
    /\ UNCHANGED <<calls, entry, args, params, testingLibrary, runs, warmupRuns, i,
                   closures, runResults, hasTooLateRender, renderJsonTrees, stats,
                   warnedOnce, warnings, deprecations, trace, commits, history, lateInLoop,
                   cleanupReturns, components, detected>>

\* a call of the scenario that is not awaited: the driver goes on at once
CallScenarioNotAwaited ==
    /\ pc = "L96"
    /\ params.options.scenario
    /\ trace' = Append(trace, [op |-> "scenario", i |-> i, arg |-> "renderResult"])
    /\ pc' = "L100"
    /\ UNCHANGED <<calls, entry, args, params, testingLibrary, runs, warmupRuns, i,
                   closures, runResults, hasTooLateRender, renderJsonTrees, stats,
                   result, outcome, warnedOnce, warnings, deprecations, commits,
                   history, lateInLoop, cleanupReturns, failedAt, components, detected>>

\* lines 96-97: call of the scenario, when one was supplied
CallScenario ==
    /\ pc = "L96"
    /\ params.options.scenario
    /\ trace' = Append(trace, [op |-> "scenario", i |-> i, arg |-> "renderResult"])
    /\ pc' = "inScenario"
    /\ UNCHANGED <<calls, entry, args, params, testingLibrary, runs, warmupRuns, i,
                   closures, runResults, hasTooLateRender, renderJsonTrees, stats,
                   result, outcome, warnedOnce, warnings, deprecations, commits, history, lateInLoop,
                   cleanupReturns, failedAt, components, detected>>

\* line 97: the awaited scenario resolves and the driver resumes
ScenarioResolves ==
    /\ pc = "inScenario"
    /\ trace' = Append(trace, [op |-> "resolved", i |-> i, arg |-> "none"])
    /\ pc' = "L100"
    /\ UNCHANGED <<calls, entry, args, params, testingLibrary, runs, warmupRuns, i,
                   closures, runResults, hasTooLateRender, renderJsonTrees, stats,
                   result, outcome, warnedOnce, warnings, deprecations, commits,
                   history, lateInLoop, cleanupReturns, failedAt, components, detected>>

\* a rejection of the scenario that is caught, the loop going on to cleanup
ScenarioRejectsCaught(e) ==
    /\ pc = "inScenario"
    /\ failedAt' = [where |-> "scenario", error |-> e]
    /\ pc' = "L100"
    /\ UNCHANGED <<calls, entry, args, params, testingLibrary, runs, warmupRuns, i,
                   closures, runResults, hasTooLateRender, renderJsonTrees, stats,
                   result, outcome, warnedOnce, warnings, deprecations, trace, commits,
                   history, lateInLoop, cleanupReturns, components, detected>>

\* the scenario in a try with cleanup in its finally block
ScenarioRejectsCleansUp(e) ==
    /\ pc = "inScenario"
    /\ trace' = Append(trace, [op |-> "cleanup", i |-> i, arg |-> "none"])
    /\ Fail("scenario", e)
    /\ UNCHANGED <<calls, entry, args, params, testingLibrary, runs, warmupRuns, i,
                   closures, runResults, hasTooLateRender, renderJsonTrees, stats,
                   warnedOnce, warnings, deprecations, commits, history, lateInLoop,
                   cleanupReturns, components, detected>>

\* line 97: the awaited scenario rejects
ScenarioRejects(e) ==
    /\ pc = "inScenario"
    /\ Fail("scenario", e)
    /\ UNCHANGED <<calls, entry, args, params, testingLibrary, runs, warmupRuns, i,
                   closures, runResults, hasTooLateRender, renderJsonTrees, stats,
                   warnedOnce, warnings, deprecations, trace, commits, history, lateInLoop,
                   cleanupReturns, components, detected>>

\* line 100: call of cleanup
CallCleanup ==
    /\ \/ pc = "L100"
       \/ pc = "L96" /\ ~params.options.scenario
    /\ trace' = Append(trace, [op |-> "cleanup", i |-> i, arg |-> "none"])
    /\ pc' = "inCleanup"
    /\ UNCHANGED <<calls, entry, args, params, testingLibrary, runs, warmupRuns, i,
                   closures, runResults, hasTooLateRender, renderJsonTrees, stats,
                   result, outcome, warnedOnce, warnings, deprecations, commits, history, lateInLoop,
                   cleanupReturns, failedAt, components, detected>>

\* line 100: cleanup returns
CleanupReturns ==
    /\ pc = "inCleanup"
    /\ cleanupReturns' = cleanupReturns + 1
    /\ pc' = "L102"
    /\ UNCHANGED <<calls, entry, args, params, testingLibrary, runs, warmupRuns, i,
                   closures, runResults, hasTooLateRender, renderJsonTrees, stats,
                   result, outcome, warnedOnce, warnings, deprecations, trace,
                   commits, history, lateInLoop, failedAt, components, detected>>

\* an exception of cleanup after which the iteration is done again
CleanupThrowsRetried(e) ==
    /\ pc = "inCleanup"
    /\ failedAt' = [where |-> "cleanup", error |-> e]
    /\ closures' = SubSeq(closures, 1, i)
    /\ history' = SubSeq(history, 1, i)
    /\ pc' = "L68"
    /\ UNCHANGED <<calls, entry, args, params, testingLibrary, runs, warmupRuns, i,
                   runResults, hasTooLateRender, renderJsonTrees, stats, result,
                   outcome, warnedOnce, warnings, deprecations, trace, commits,
                   lateInLoop, cleanupReturns, components, detected>>

\* line 100: cleanup throws
CleanupThrows(e) ==
    /\ pc = "inCleanup"
    /\ Fail("cleanup", e)
    /\ UNCHANGED <<calls, entry, args, params, testingLibrary, runs, warmupRuns, i,
                   closures, runResults, hasTooLateRender, renderJsonTrees, stats,
                   warnedOnce, warnings, deprecations, trace, commits, history, lateInLoop,
                   cleanupReturns, components, detected>>

\* lines 102-103: isFinished = true; global.gc?.()
Finish ==
    /\ pc = "L102"
    /\ closures' = [closures EXCEPT ![i + 1].isFinished = TRUE]
    /\ pc' = "L105"
    /\ UNCHANGED <<calls, entry, args, params, testingLibrary, runs, warmupRuns, i,
                   runResults, hasTooLateRender, renderJsonTrees, stats, result,
                   outcome, warnedOnce, warnings, deprecations, trace, commits, history, lateInLoop,
                   cleanupReturns, failedAt, components, detected>>

\* a push at the front (unshift)
PushRunResultFront(rr, r) == <<r>> \o rr

\* runResults.push({ duration, count }) of line 105
PushRunResult(rr, r) == Append(rr, r)

\* lines 105, 68: push the run result, i += 1
Push ==
    /\ pc = "L105"
    /\ runResults' = PushRunResult(runResults, [duration |-> closures[i + 1].duration,
                                                count |-> closures[i + 1].count])
    /\ i' = i + 1
    /\ pc' = "L68"
    /\ UNCHANGED <<calls, entry, args, params, testingLibrary, runs, warmupRuns,
                   closures, hasTooLateRender, renderJsonTrees, stats, result, outcome,
                   warnedOnce, warnings, deprecations, trace, commits, history, lateInLoop,
                   cleanupReturns, failedAt, components, detected>>

-----------------------------------------------------------------------------
(* After the loop, lines 108-124 and 28-34 *)

\* lines 108-113: the too-late-render warning
WarnTooLate ==
    /\ pc = "L68"
    /\ ~(i < runs + warmupRuns)
    /\ warnings' = IF hasTooLateRender THEN Append(warnings, TooLateMessage) ELSE warnings
    /\ pc' = "L115"
    /\ UNCHANGED <<calls, entry, args, params, testingLibrary, runs, warmupRuns, i,
                   closures, runResults, hasTooLateRender, renderJsonTrees, stats,
                   result, outcome, warnedOnce, deprecations, trace, commits, history, lateInLoop,
                   cleanupReturns, failedAt, components, detected>>

initialRenderTrees == SelectSeq(renderJsonTrees, LAMBDA tree : IsNull(tree))
\* the snapshots left unfiltered
allRenderTrees == renderJsonTrees

regularRenderTrees == SelectSeq(renderJsonTrees, LAMBDA tree : ~IsNull(tree))

\* lines 120-123
redundantRenders ==
    [initial |-> Len(initialRenderTrees) - 1,
     update |-> Len(detectRedundantUpdates(regularRenderTrees))]

\* lines 115-124: the result of measureRendersInternal
Compute ==
    /\ pc = "L115"
    /\ trace' = Append(trace, [op |-> "stats", i |-> i,
                               arg |-> [runResults |-> runResults,
                                        warmupRuns |-> warmupRuns]])
    /\ stats' = [stats |-> processRunResults(runResults, warmupRuns),
                 redundantRenders |-> redundantRenders]
    /\ pc' = "L30"
    /\ UNCHANGED <<calls, entry, args, params, testingLibrary, runs, warmupRuns, i,
                   closures, runResults, hasTooLateRender, renderJsonTrees, result,
                   outcome, warnedOnce, warnings, deprecations, commits, history, lateInLoop,
                   cleanupReturns, failedAt, components, detected>>

\* a test of the truth of options.writeFile
WriteFileTruthy(writeFile) == writeFile = "true"

\* line 30
ShouldWrite(writeFile) == writeFile # "false"

\* lines 30-31: call of writeTestStats
CallWrite ==
    /\ pc = "L30"
    /\ ShouldWrite(params.options.writeFile)
    /\ trace' = Append(trace, [op |-> "write", i |-> i,
                               arg |-> [stats |-> stats, kind |-> "render"]])
    /\ pc' = "inWrite"
    /\ UNCHANGED <<calls, entry, args, params, testingLibrary, runs, warmupRuns, i,
                   closures, runResults, hasTooLateRender, renderJsonTrees, stats,
                   result, outcome, warnedOnce, warnings, deprecations, commits, history, lateInLoop,
                   cleanupReturns, failedAt, components, detected>>

\* line 31: writeTestStats rejects
WriteRejects(e) ==
    /\ pc = "inWrite"
    /\ Fail("write", e)
    /\ UNCHANGED <<calls, entry, args, params, testingLibrary, runs, warmupRuns, i,
                   closures, runResults, hasTooLateRender, renderJsonTrees, stats,
                   warnedOnce, warnings, deprecations, trace, commits, history, lateInLoop,
                   cleanupReturns, components, detected>>

\* line 34: return stats
Return ==
    /\ \/ pc = "inWrite"
       \/ pc = "L30" /\ ~ShouldWrite(params.options.writeFile)
    /\ Settle(Fulfilled(stats))
    /\ UNCHANGED <<calls, entry, args, params, testingLibrary, runs, warmupRuns, i,
                   closures, runResults, hasTooLateRender, renderJsonTrees, stats,
                   warnedOnce, warnings, deprecations, trace, commits, history, lateInLoop,
                   cleanupReturns, failedAt, components, detected>>

\* the awaiting caller resumes and goes on: the frames of the call are gone,
\* the state of the logger stays
Resume ==
    /\ pc = "settled"
    /\ calls < MaxCalls
    /\ pc' = "idle"
    /\ entry' = "none"
    /\ args' = [ui |-> "none", options |-> UndefinedOptions]
    /\ params' = [ui |-> "none", options |-> UndefinedOptions]
    /\ NewFrame
    /\ UNCHANGED <<calls, warnedOnce, deprecations, components, detected>>

-----------------------------------------------------------------------------

Next ==
    \/ \E ui \in Uis, options \in MeasureRendersOptions :
          Call("measureRenders", ui, options)
    \/ \E config \in Configs, library \in Libraries : InternalStart(config, library)
    \/ CallRender
    \/ \E j \in 0 .. MaxRuns + 1, d \in Durations, json \in ToJsonTree :
          HandleRender(j, d, json)
    \/ \E json \in ToJsonTree : RenderReturns(json)
    \/ \E e \in Errors : RenderThrows(e)
    \/ CallScenario
    \/ ScenarioResolves
    \/ \E e \in Errors : ScenarioRejects(e)
    \/ CallCleanup
    \/ CleanupReturns
    \/ \E e \in Errors : CleanupThrows(e)
    \/ Finish
    \/ Push
    \/ WarnTooLate
    \/ Compute
    \/ CallWrite
    \/ \E e \in Errors : WriteRejects(e)
    \/ Return

Spec == Init /\ [][Next]_vars

\* a process in which both entry points are called, one call after another
NextProcess ==
    \/ Next
    \/ \E ui \in Uis, options \in MeasureRendersOptions :
          Call("measurePerformance", ui, options)
    \/ Deprecation
    \/ PerformanceSettles
    \/ Resume

SpecProcess == Init /\ [][NextProcess]_vars

-----------------------------------------------------------------------------
(* The redundancy detector called on its own *)

SnapshotSeqs == UNION {[1 .. n -> Snapshots] : n \in 0 .. MaxLen}

InitDetect ==
    /\ Idle
    /\ calls = 0
    /\ warnedOnce = {}
    /\ deprecations = 0
    /\ components \in SnapshotSeqs
    /\ detected = <<>>

\* a call of detectRedundantUpdates(components), lines 147-157
Detect ==
    /\ pc = "idle"
    /\ detected' = detectRedundantUpdates(components)
    /\ pc' = "detected"
    /\ UNCHANGED <<calls, entry, args, params, testingLibrary, runs, warmupRuns, i,
                   closures, runResults, hasTooLateRender, renderJsonTrees, stats,
                   result, outcome, warnedOnce, warnings, deprecations, trace, commits,
                   history, lateInLoop, cleanupReturns, failedAt, components>>

NextDetect == Detect

SpecDetect == InitDetect /\ [][NextDetect]_vars

-----------------------------------------------------------------------------
(* Vocabulary of the properties *)

Events(op) == SelectSeq(trace, LAMBDA e : e.op = op)
CountOf(seq, x) == Cardinality({k \in 1 .. Len(seq) : seq[k] = x})
TooLateWarnings == CountOf(warnings, TooLateMessage)
LateFired == \E k \in 1 .. Len(history) : history[k].late > 0
FailedInLoop == failedAt.where \in {"render", "scenario", "cleanup"}

\* what iteration k - 1 accumulated up to the return of its cleanup
OnTimeResult(k) == [duration |-> history[k].onTimeDuration, count |-> history[k].onTime]

-----------------------------------------------------------------------------
(* C1 *)

\* C1 as stated: the sequence handed to the stats collaborator has runs +
\* warmupRuns entries, and while no collaborator has failed the length of the
\* run-results sequence equals the number of iterations whose cleanup has
\* completed, at every point.
C1_LengthEqualsCleanups ==
    /\ \A k \in 1 .. Len(Events("stats")) :
          Len(Events("stats")[k].arg.runResults) = runs + warmupRuns
    /\ failedAt = NoFailure => Len(runResults) = cleanupReturns

\* C1, amended: the sequence handed to the stats collaborator has exactly
\* runs + warmupRuns entries, entry k being what iteration k - 1 accumulated;
\* while no collaborator has failed, the length of the run-results sequence is
\* the number of completed cleanups, except between the return of an
\* iteration's cleanup and its push (lines 100-105), where it is one less.
C1_RunResults ==
    /\ pc \notin {"idle", "L44", "L28"} =>
          /\ params.options.runs # Undefined => runs = params.options.runs
          /\ params.options.warmupRuns # Undefined =>
                 warmupRuns = params.options.warmupRuns
    /\ \A k \in 1 .. Len(Events("stats")) :
          LET handed == Events("stats")[k].arg.runResults
          IN  /\ Len(handed) = runs + warmupRuns
              /\ \A n \in 1 .. Len(handed) : handed[n] = OnTimeResult(n)
    /\ failedAt = NoFailure =>
          Len(runResults) = IF pc \in {"L102", "L105"} THEN cleanupReturns - 1
                            ELSE cleanupReturns

\* two iterations with different results were handed over, in execution order
C1_Witness ==
    /\ pc = "L30"
    /\ Len(runResults) = 2
    /\ runResults[1].count = 0
    /\ runResults[2] = [duration |-> 3, count |-> 2]

-----------------------------------------------------------------------------
(* C2 *)

\* C2: when the scenario rejects in iteration k, measureRenders rejects with
\* that same error and nothing more is done: the scenario call of iteration k
\* is the last collaborator call, and render was invoked for 0 .. k only.
C2_ScenarioRejects ==
    failedAt.where = "scenario" =>
        /\ pc = "settled"
        /\ result = Rejected(failedAt.error)
        /\ outcome = Rejected(failedAt.error)
        /\ trace[Len(trace)].op = "scenario"
        /\ trace[Len(trace)].i = i
        /\ Len(Events("render")) = i + 1
        /\ \A k \in 1 .. Len(Events("render")) : Events("render")[k].i = k - 1

\* the scenario of the first of two iterations rejected with E2
C2_Witness ==
    /\ failedAt = [where |-> "scenario", error |-> "E2"]
    /\ i = 0
    /\ runs + warmupRuns = 2

-----------------------------------------------------------------------------
(* C3 *)

\* C3 as stated: a settled measurement has emitted exactly one too-late-render
\* warning if some render callback fired after its run's cleanup had completed,
\* and none if no callback did.
C3_WarnsIffLate ==
    pc = "settled" => TooLateWarnings = IF LateFired THEN 1 ELSE 0

\* C3, amended: a measurement emits at most one too-late-render warning; once
\* all iterations have completed without failure it has emitted exactly one if
\* some render callback fired after its run's cleanup and before the loop
\* ended, and none otherwise; a late callback that fires only after the loop
\* has ended, or in a measurement that fails in an iteration, gives no warning.
C3_TooLateWarning ==
    /\ TooLateWarnings <= 1
    /\ ~LateFired => TooLateWarnings = 0
    /\ FailedInLoop => TooLateWarnings = 0
    /\ (pc \in {"L115", "L30", "inWrite"} \/ (pc = "settled" /\ ~FailedInLoop)) =>
          TooLateWarnings = IF lateInLoop THEN 1 ELSE 0
    /\ pc \in {"idle", "L28", "L68", "inRender", "L96", "inScenario", "L100",
               "inCleanup", "L102", "L105"} => TooLateWarnings = 0

\* two late callbacks in the loop, one warning
C3_Witness ==
    /\ pc = "settled"
    /\ result.status = "fulfilled"
    /\ \E k \in 1 .. Len(history) : history[k].late = 2
    /\ lateInLoop
    /\ TooLateWarnings = 1

-----------------------------------------------------------------------------
(* C4 *)

NullEntries == {k \in 1 .. Len(renderJsonTrees) : renderJsonTrees[k] = Null}

\* the measurement had one iteration, on the native target, and its profiling
\* boundary committed once, during render
SingleMount ==
    /\ runs + warmupRuns = 1
    /\ testingLibrary = "react-native"
    /\ commits = 1
    /\ history[1].mount = 1

\* C4: in the result just computed, redundantRenders.initial is the number of
\* absent entries of the snapshot sequence minus 1; and in a single-run
\* native-target measurement whose only commit is the initial mount,
\* redundantRenders.initial = 0 and redundantRenders.update = 0.
C4_Initial ==
    pc = "L30" =>
        /\ stats.redundantRenders.initial = Cardinality(NullEntries) - 1
        /\ SingleMount => stats.redundantRenders = [initial |-> 0, update |-> 0]

-----------------------------------------------------------------------------
(* C5 *)

RECURSIVE Present(_)
Present(seq) ==
    IF seq = <<>> THEN <<>>
    ELSE IF Head(seq) = Null THEN Present(Tail(seq))
    ELSE <<Head(seq)>> \o Present(Tail(seq))

AdjacentEqualPairs(seq) == Cardinality({k \in 2 .. Len(seq) : seq[k] = seq[k - 1]})

\* C5: in the result just computed, redundantRenders.update is the number of
\* adjacent equal pairs in the sequence of present snapshots, in capture order,
\* the absent entries removed.
C5_Update ==
    pc = "L30" =>
        stats.redundantRenders.update = AdjacentEqualPairs(Present(renderJsonTrees))

\* two equal present snapshots with an absent one captured between them
C5_Witness ==
    /\ pc = "L30"
    /\ renderJsonTrees = <<TreeA, Null, TreeA>>
    /\ stats.redundantRenders.update = 1

-----------------------------------------------------------------------------
(* C6 *)

\* C6: detectRedundantUpdates(s) returns, strictly ascending, exactly the
\* 0-based indices n with 1 <= n <= length(s) - 1 and s[n] equal to s[n - 1];
\* it is empty for the empty and the one-element sequence, never holds index 0,
\* and [A, A, B, B, B] gives [1, 3, 4].
C6_Detect ==
    pc = "detected" =>
        /\ \A k \in 1 .. Len(detected) :
              /\ detected[k] \in 1 .. Len(components) - 1
              /\ components[detected[k] + 1] = components[detected[k]]
        /\ \A n \in 1 .. Len(components) - 1 :
              components[n + 1] = components[n] =>
                  \E k \in 1 .. Len(detected) : detected[k] = n
        /\ \A k \in 1 .. Len(detected) - 1 : detected[k] < detected[k + 1]
        /\ Len(components) <= 1 => detected = <<>>
        /\ components = <<TreeA, TreeA, TreeB, TreeB, TreeB>> => detected = <<1, 3, 4>>

\* the example of the specification has been computed
C6_Witness ==
    /\ pc = "detected"
    /\ components = <<TreeA, TreeA, TreeB, TreeB, TreeB>>
    /\ detected = <<1, 3, 4>>

-----------------------------------------------------------------------------
(* C7 *)

\* C7: the output collaborator is invoked at most once, after the result was
\* computed from all iterations, with that result and the kind "render"; a
\* measurement that returns has invoked it exactly once if writeFile is not
\* explicitly false and never if it is false, and returns the result computed
\* from the run results in both cases.
C7_Output ==
    /\ Len(Events("write")) <= 1
    /\ \A k \in 1 .. Len(Events("write")) :
          /\ Events("write")[k].arg = [stats |-> stats, kind |-> "render"]
          /\ Events("write")[k].i = runs + warmupRuns
          /\ trace[Len(trace)].op = "write"
          /\ trace[Len(trace) - 1].op = "stats"
          /\ Len(Events("cleanup")) = runs + warmupRuns
    /\ params.options.writeFile = "false" => Events("write") = <<>>
    /\ (pc = "settled" /\ result.status = "fulfilled") =>
          /\ Len(Events("write")) = IF params.options.writeFile = "false" THEN 0 ELSE 1
          /\ result.value = [stats |-> processRunResults(runResults, warmupRuns),
                             redundantRenders |-> stats.redundantRenders]

\* a measurement called without writeFile has returned after one write
C7_Witness ==
    /\ pc = "settled"
    /\ result.status = "fulfilled"
    /\ params.options.writeFile = "undefined"
    /\ Len(Events("write")) = 1
    /\ Len(runResults) = 2

-----------------------------------------------------------------------------
(* C8 *)

\* C8: when render, scenario or cleanup fails in an iteration, the call is
\* rejected with no result: neither the stats nor the output collaborator is
\* invoked, no too-late-render warning is emitted even if a late render was
\* flagged before, and the failing call is the last one: no iteration's render
\* is invoked twice.
C8_Failure ==
    FailedInLoop =>
        /\ pc = "settled"
        /\ result = Rejected(failedAt.error)
        /\ stats = NoStats
        /\ Events("stats") = <<>>
        /\ Events("write") = <<>>
        /\ TooLateWarnings = 0
        /\ trace[Len(trace)].op = failedAt.where
        /\ trace[Len(trace)].i = i
        /\ \A k \in 1 .. Len(Events("render")) : Events("render")[k].i = k - 1

\* cleanup failed in the second iteration, a late render being flagged already
C8_Witness ==
    /\ failedAt.where = "cleanup"
    /\ i = 1
    /\ hasTooLateRender
    /\ LateFired

-----------------------------------------------------------------------------
(* C9 *)

\* C9: a measurePerformance call runs measureRenders with the ui and options
\* it was given and settles as measureRenders settles; it differs by the
\* deprecation warning only, which comes before any collaborator call and is
\* emitted at most once in a process, however many calls are made.
C9_Alias ==
    /\ deprecations = IF DeprecationMessage \in warnedOnce THEN 1 ELSE 0
    /\ CountOf(warnings, DeprecationMessage) <= deprecations
    /\ \A k \in 2 .. Len(warnings) : warnings[k] # DeprecationMessage
    /\ entry = "measureRenders" =>
          /\ CountOf(warnings, DeprecationMessage) = 0
          /\ params = args
          /\ outcome = result
    /\ entry = "measurePerformance" =>
          /\ pc = "L44" => trace = <<>> /\ warnings = <<>>
          /\ pc # "L44" => params = args /\ deprecations = 1
          /\ pc = "L48" => outcome = Pending /\ result # Pending
          /\ pc = "settled" => outcome = result /\ result # Pending
          /\ pc \notin {"L48", "settled"} => outcome = Pending /\ result = Pending

\* a second measurePerformance call has settled without a second warning
C9_Witness ==
    /\ calls = 2
    /\ entry = "measurePerformance"
    /\ pc = "settled"
    /\ outcome.status = "fulfilled"
    /\ deprecations = 1
    /\ warnings = <<>>

-----------------------------------------------------------------------------
(* C10 *)

\* C10 as stated: on a target other than the native one the snapshot sequence
\* stays empty, and on the native target it never grows once iteration 0 has
\* pushed its RunResult.
C10_NoGrowthAfterFirstRun ==
    [][/\ testingLibrary' # "react-native" => renderJsonTrees' = <<>>
       /\ (i >= 1 /\ i' >= 1) => renderJsonTrees' = renderJsonTrees]_vars

\* C10, amended: on a target other than the native one the snapshot sequence
\* stays empty; on the native target it grows by one entry at a time and only
\* through iteration 0: the capture after its render (line 94) or a call of
\* its render callback, which may come after iteration 0 has pushed its
\* RunResult; render callbacks of the iterations 1.. never add a snapshot.
C10_OnlyFirstRunCaptures ==
    [][/\ testingLibrary' # "react-native" => renderJsonTrees' = <<>>
       /\ (pc # "idle" /\ renderJsonTrees' # renderJsonTrees) =>
             /\ Len(renderJsonTrees') = Len(renderJsonTrees) + 1
             /\ SubSeq(renderJsonTrees', 1, Len(renderJsonTrees)) = renderJsonTrees
             /\ \/ pc = "inRender" /\ pc' = "L96" /\ i = 0
                \/ /\ pc' = pc
                   /\ commits' = commits + 1
                   /\ closures'[1].count = closures[1].count + 1]_vars

\* a late render callback of iteration 0 has added a snapshot during iteration 1
C10_Witness ==
    /\ i = 1
    /\ Len(history) = 2
    /\ history[1].late = 1
    /\ history[1].onTime = 0
    /\ history[2].onTime = 1
    /\ Len(renderJsonTrees) = 2

-----------------------------------------------------------------------------
(* C11 *)

\* positions, in capture order, of the present snapshots
RECURSIVE PresentPositions(_)
PresentPositions(n) ==
    IF n = 0 THEN <<>>
    ELSE IF renderJsonTrees[n] = Null THEN PresentPositions(n - 1)
    ELSE Append(PresentPositions(n - 1), n)

\* positions, in capture order, of the snapshots that the result counts in update
CountedPositions ==
    LET at == PresentPositions(Len(renderJsonTrees))
        found == detectRedundantUpdates(regularRenderTrees)
    IN  {at[found[k] + 1] : k \in 1 .. Len(found)}

\* positions of the present snapshots equal to the snapshot captured just before
RedundantPositions ==
    {k \in 2 .. Len(renderJsonTrees) :
        renderJsonTrees[k] # Null /\ renderJsonTrees[k] = renderJsonTrees[k - 1]}

\* C11: in the result just computed, the snapshots counted in
\* redundantRenders.update are exactly the present snapshots equal to the
\* snapshot captured immediately before them, absent entries included.
C11_UpdateIsRedundant ==
    pc = "L30" =>
        /\ CountedPositions = RedundantPositions
        /\ stats.redundantRenders.update = Cardinality(RedundantPositions)

-----------------------------------------------------------------------------
(* C12 *)

\* C12: in every result computed, redundantRenders.initial and
\* redundantRenders.update are non-negative.
C12_NonNegative ==
    stats # NoStats =>
        /\ stats.redundantRenders.initial >= 0
        /\ stats.redundantRenders.update >= 0

-----------------------------------------------------------------------------
(* C13 *)

\* C13: the RunResult pushed for an iteration holds the number of invocations
\* of that iteration's render callback between its render call and its push,
\* and the sum of their actualDuration; until the push the iteration's
\* accumulators hold the invocations so far, starting from 0 and 0.
C13_RunResultOfIteration ==
    /\ Len(runResults) <= Len(history)
    /\ \A k \in 1 .. Len(runResults) : runResults[k] = OnTimeResult(k)
    /\ \A k \in Len(runResults) + 1 .. Len(closures) :
          /\ closures[k].count = history[k].onTime
          /\ closures[k].duration = history[k].onTimeDuration
          /\ history[k].late = 0
    /\ (pc = "inRender" /\ commits = 0) =>
          closures[i + 1].duration = 0 /\ closures[i + 1].count = 0

\* both iterations were pushed with the callbacks of their own boundary
C13_Witness ==
    /\ pc = "L68"
    /\ runResults = <<[duration |-> 2, count |-> 1], [duration |-> 1, count |-> 1]>>
    /\ history[1].onTime = 1
    /\ history[2].onTime = 1

-----------------------------------------------------------------------------
(* C14 *)

\* the calls and resumptions of the loop, lines 68-106
LoopTrace ==
    SelectSeq(trace, LAMBDA e : e.op \in {"render", "scenario", "resolved", "cleanup"})

\* the step of an iteration that comes before step e
Before(e) ==
    IF e.op = "render" THEN [op |-> "cleanup", i |-> e.i - 1]
    ELSE IF e.op = "scenario" THEN [op |-> "render", i |-> e.i]
    ELSE IF e.op = "resolved" THEN [op |-> "scenario", i |-> e.i]
    ELSE IF params.options.scenario THEN [op |-> "resolved", i |-> e.i]
    ELSE [op |-> "render", i |-> e.i]

\* trees rendered and not yet cleaned up
Mounted == Len(Events("render")) - cleanupReturns

\* C14: iterations run one after the other: in an iteration render is called,
\* then the scenario, when supplied, is called and awaited until it resolves,
\* then cleanup is called, then isFinished is set, then the RunResult is
\* pushed; render of the next iteration is called only after cleanup of this
\* one has returned and its result was pushed, so at most one rendered tree is
\* mounted at any time.
C14_Sequential ==
    /\ \A k \in 1 .. Len(LoopTrace) :
          IF k = 1 THEN LoopTrace[k].op = "render" /\ LoopTrace[k].i = 0
          ELSE /\ LoopTrace[k - 1].op = Before(LoopTrace[k]).op
               /\ LoopTrace[k - 1].i = Before(LoopTrace[k]).i
    /\ \A k \in 1 .. Len(LoopTrace) :
          LoopTrace[k].op = "scenario" => params.options.scenario
    /\ Mounted \in {0, 1}
    /\ pc = "inRender" => cleanupReturns = i /\ Len(runResults) = i
    /\ pc \in {"inScenario", "inCleanup"} => Mounted = 1
    /\ pc = "inScenario" => trace[Len(trace)] = [op |-> "scenario", i |-> i,
                                                 arg |-> "renderResult"]
    /\ pc = "L102" => cleanupReturns = i + 1 /\ ~closures[i + 1].isFinished
    /\ pc = "L105" => closures[i + 1].isFinished /\ Len(runResults) = i
    /\ \A k \in 1 .. Len(closures) :
          /\ closures[k].isFinished => k <= cleanupReturns
          /\ k <= Len(runResults) => closures[k].isFinished

\* the second iteration is mounted after the first went through render,
\* scenario, resolution and cleanup
C14_Witness ==
    /\ pc = "inScenario"
    /\ i = 1
    /\ Len(LoopTrace) = 6
    /\ LoopTrace[3].op = "resolved"
    /\ LoopTrace[4] = [op |-> "cleanup", i |-> 0, arg |-> "none"]
    /\ Mounted = 1

-----------------------------------------------------------------------------
(* C15 *)

\* this step is a render callback of iteration j, fired after iteration j was
\* pushed
LateRenderOf(j) ==
    /\ j < Len(runResults)
    /\ commits' = commits + 1
    /\ history'[j + 1].late = history[j + 1].late + 1

\* C15: a pushed RunResult is never changed; a render callback of iteration j
\* that fires after iteration j was pushed leaves the run results, and the
\* duration and count of every other iteration, as they were, sets
\* hasTooLateRender and, for iteration 0 on the native target alone, appends
\* one snapshot. The bindings of iteration j it adds to were copied at the
\* push and are read by nothing afterwards.
C15_LateRenderFrame ==
    [][ /\ \A k \in 1 .. Len(runResults) :
              Len(runResults') >= k /\ runResults'[k] = runResults[k]
        /\ \A j \in 0 .. Len(closures) - 1 :
              LateRenderOf(j) =>
                 /\ runResults' = runResults
                 /\ \A k \in 1 .. Len(closures) : k # j + 1 => closures'[k] = closures[k]
                 /\ Len(closures') = Len(closures)
                 /\ closures'[j + 1].isFinished /\ closures'[j + 1].renderResult
                 /\ hasTooLateRender'
                 /\ IF testingLibrary = "react-native" /\ j = 0
                    THEN /\ Len(renderJsonTrees') = Len(renderJsonTrees) + 1
                         /\ SubSeq(renderJsonTrees', 1, Len(renderJsonTrees)) = renderJsonTrees
                    ELSE renderJsonTrees' = renderJsonTrees
                 /\ UNCHANGED <<pc, i, params, testingLibrary, runs, warmupRuns, stats,
                                result, outcome, warnings, trace, cleanupReturns, failedAt>>
      ]_vars

\* a callback of the first iteration has fired after its result was pushed
C15_Witness ==
    /\ Len(runResults) = 2
    /\ history[1].late = 1
    /\ closures[1].count = runResults[1].count + 1
    /\ closures[2].count = runResults[2].count
    /\ hasTooLateRender
    /\ testingLibrary = "react-native"
    /\ Len(renderJsonTrees) = 2

-----------------------------------------------------------------------------
(* C16 *)

Renders == Len(Events("render"))

Cleanups == Len(Events("cleanup"))

\* the loop of lines 68-106 ran to its end
LoopCompleted ==
    \/ pc \in {"L115", "L30", "inWrite"}
    \/ pc = "settled" /\ failedAt.where \notin {"render", "scenario", "cleanup"}

\* C16: at every point the number of cleanup calls is the number of render
\* calls or one less; a measurement whose loop completes has called render and
\* cleanup runs + warmupRuns times each; when the scenario of iteration k
\* rejects, cleanup is never called for iteration k, and one rendered tree is
\* left without cleanup.
C16_RenderCleanupBalance ==
    /\ Cleanups \in {Renders, Renders - 1}
    /\ LoopCompleted => Renders = runs + warmupRuns /\ Cleanups = runs + warmupRuns
    /\ failedAt.where = "scenario" =>
          /\ Renders = i + 1
          /\ Cleanups = i
          /\ \A k \in 1 .. Len(trace) : trace[k].op = "cleanup" => trace[k].i < i
          /\ trace[Len(trace)] = [op |-> "scenario", i |-> i, arg |-> "renderResult"]

\* the scenario of the second iteration rejected: two renders, one cleanup
C16_Witness ==
    /\ failedAt.where = "scenario"
    /\ pc = "settled"
    /\ i = 1
    /\ Renders = 2
    /\ Cleanups = 1

====
